---- MODULE Spec2Model ----
(***************************************************************************)
(* RcloneAutomation (evalit/rclone/rclone_automation.py): the log timing   *)
(* parser parse_log and the driver run_automation.                         *)
(*                                                                         *)
(* A log line is a sequence of lexemes (pieces of text).  The separators   *)
(* the code looks for (":", "DEBUG", "INFO", the marker substrings, the    *)
(* blank) are lexemes of their own, so that str.find, str.split and        *)
(* str.strip are computed on the line as the code computes them.           *)
(***************************************************************************)
EXTENDS Integers, Sequences, FiniteSets, TLC

\* ------------------------------------------------------------------ bounds
MaxLines == 2
MaxTick == 1
MaxCalls == 2
MaxIds == 2
MaxRunLines == 1

\* ------------------------------------------------------- text of the logs
SP == " "
COLON == ":"
TRANSFERRING == "Transferring unconditionally"
MULTIPART == "multipart upload starting chunk 1 size"
COPIED == "Copied"
DATE == "2024/01/01"
HOUR == "10"
MinuteTok == <<"00", "05", "10", "15">>

Ticks == 0 .. MaxTick

\* "2024/01/01 10:MM:00", MM the minute of tick k
Timestamp(k) == <<DATE, SP, HOUR, COLON, MinuteTok[k + 1], COLON, "00">>

\* a time stamp that "%Y/%m/%d %H:%M:%S" does not accept
BadTimestamp == <<"2024-01-01T10", COLON, "00">>

\* file names: plain, with a colon in them, with the word Copied in them
Foo == <<"foo">>
DX == <<"d", COLON, "x">>
DY == <<"d", COLON, "y">>
CopiedTxt == <<COPIED, ".txt">>
Names == {Foo, DX, DY, CopiedTxt}

StartMsgs == {<<TRANSFERRING>>, <<MULTIPART>>}
OtherMsg == <<"Starting transfer">>

LevelOf(msg) == IF msg = <<COPIED>> THEN <<"INFO", SP>> ELSE <<"DEBUG">>

\* a line as rclone writes it: "<stamp> DEBUG : <name>: <message>"
RcloneLine(stamp, name, msg) ==
    stamp \o <<SP>> \o LevelOf(msg) \o <<SP, COLON, SP>> \o name \o <<COLON, SP>> \o msg

\* a line of the shape "<stamp> DEBUG: msg: id: foo: <message>"
FieldedLine(stamp, level, msg) ==
    stamp \o <<SP, level, COLON, SP, "msg", COLON, SP, "id", COLON, SP, "foo", COLON, SP>> \o msg

ExampleStart == FieldedLine(Timestamp(0), "DEBUG", <<TRANSFERRING>>)
ExampleEnd == FieldedLine(Timestamp(1), "INFO", <<COPIED>>)

\* a completion line cut short: no time stamp, no name field
TruncatedLine == <<COPIED, SP, "(new)">>

\* the lines a log is made of: start and completion lines of foo at every
\* tick, a start line and a later completion line of the names with a colon
\* or with Copied in them, a multipart start line, lines with no marker,
\* lines with a bad time stamp, the two example lines, the truncated line
Lines ==
    {RcloneLine(Timestamp(k), Foo, m) : k \in Ticks, m \in {<<TRANSFERRING>>, <<COPIED>>}}
        \cup {RcloneLine(Timestamp(0), n, <<TRANSFERRING>>) : n \in {DX, CopiedTxt}}
        \cup {RcloneLine(Timestamp(1), n, <<COPIED>>) : n \in {DX, CopiedTxt}}
        \cup {RcloneLine(Timestamp(0), Foo, <<MULTIPART>>)}
        \cup {RcloneLine(s, Foo, OtherMsg) : s \in {Timestamp(0), BadTimestamp}}
        \cup {RcloneLine(BadTimestamp, Foo, m) : m \in {<<TRANSFERRING>>, <<COPIED>>}}
        \cup {ExampleStart, ExampleEnd, TruncatedLine}

RECURSIVE SeqsUpTo(_, _)
SeqsUpTo(S, n) ==
    IF n = 0 THEN {<<>>}
    ELSE LET shorter == SeqsUpTo(S, n - 1)
         IN shorter \cup {Append(s, x) : s \in {t \in shorter : Len(t) = n - 1}, x \in S}

Logs == SeqsUpTo(Lines, MaxLines)

\* ------------------------------------------------ str.find / split / strip
\* line.find(sub) != -1
Find(line, sub) == \E i \in DOMAIN line : line[i] = sub

\* line.split(sep): the fields between the occurrences of sep
RECURSIVE Split(_, _)
Split(line, sep) ==
    IF ~Find(line, sep) THEN <<line>>
    ELSE LET i == CHOOSE j \in DOMAIN line :
                    line[j] = sep /\ \A k \in 1 .. j - 1 : line[k] # sep
         IN <<SubSeq(line, 1, i - 1)>> \o Split(SubSeq(line, i + 1, Len(line)), sep)

\* field.strip()
RECURSIVE Strip(_)
Strip(f) ==
    IF f = <<>> THEN f
    ELSE IF Head(f) = SP THEN Strip(Tail(f))
    ELSE IF f[Len(f)] = SP THEN Strip(SubSeq(f, 1, Len(f) - 1))
    ELSE f

\* ------------------------------------------------------- datetime.strptime
\* the value of a two-digit field, -1 when it is not one
TwoDigits(tok) ==
    CASE tok = "00" -> 0 [] tok = "05" -> 5 [] tok = "10" -> 10 [] tok = "15" -> 15
      [] OTHER -> -1

\* whether datetime.strptime(text, "%Y/%m/%d %H:%M:%S") accepts text
StrptimeOk(text) ==
    /\ Len(text) = 7
    /\ text[1] = DATE /\ text[2] = SP /\ text[3] = HOUR
    /\ text[4] = COLON /\ TwoDigits(text[5]) >= 0
    /\ text[6] = COLON /\ TwoDigits(text[7]) >= 0

\* its value: seconds since midnight of 2024/01/01
Strptime(text) == TwoDigits(text[3]) * 3600 + TwoDigits(text[5]) * 60 + TwoDigits(text[7])


\* ------------------------------------------------------------ TransferDTO
None == -1

\* TransferDTO(fname=fname, transferer="rclone"): both times unset
TransferDTO(fname) ==
    [fname |-> fname, transferer |-> "rclone", start_time |-> None, end_time |-> None]

\* ------------------------------------------------- the body of parse_log
\* the dict timekeeper, in insertion order: a sequence of TransferDTO with
\* pairwise different fname
Index(tk, fname) ==
    IF \E i \in DOMAIN tk : tk[i].fname = fname
    THEN CHOOSE i \in DOMAIN tk : tk[i].fname = fname
    ELSE 0

\* timekeeper.get(fname, TransferDTO(fname=fname, transferer="rclone"))
Get(tk, fname) == IF Index(tk, fname) = 0 THEN TransferDTO(fname) ELSE tk[Index(tk, fname)]

\* a store that keeps the entry a name already has
PutKeepsOld(tk, fname, dto) == IF Index(tk, fname) = 0 THEN Append(tk, dto) ELSE tk

\* timekeeper[fname] = dto
Put(tk, fname, dto) ==
    IF Index(tk, fname) = 0 THEN Append(tk, dto) ELSE [tk EXCEPT ![Index(tk, fname)] = dto]

\* the index of the colon-delimited field that holds the file name
FnameField == 3

\* line.split(":")[3] exists
HasFname(line) == Len(Split(line, COLON)) > FnameField

\* the name taken from the field before the message
FnameBeforeMessage(line) == Strip(Split(line, COLON)[Len(Split(line, COLON)) - 1])

\* line.split(":")[3].strip()
Fname(line) == Strip(Split(line, COLON)[FnameField + 1])

\* line.split("DEBUG")[0].strip() and line.split("INFO")[0].strip()
StartStamp(line) == Strip(Split(line, "DEBUG")[1])
EndStamp(line) == Strip(Split(line, "INFO")[1])

\* the condition of the first if
IsStartLine(line) == Find(line, MULTIPART) \/ Find(line, TRANSFERRING)

\* the condition of the second if
IsCopiedLine(line) == Find(line, COPIED)

Ok(tk) == [raised |-> "", tk |-> tk]
Raise(exc) == [raised |-> exc, tk |-> <<>>]

\* the first if with its body
StartBranch(tk, line) ==
    IF ~IsStartLine(line) THEN Ok(tk)
    ELSE IF ~HasFname(line) THEN Raise("IndexError")
    ELSE IF ~StrptimeOk(StartStamp(line)) THEN Raise("ValueError")
    ELSE Ok(Put(tk, Fname(line),
                [Get(tk, Fname(line)) EXCEPT !.start_time = Strptime(StartStamp(line))]))

\* whether the second if of the loop body is reached and taken
EndTaken(tk, line) == StartBranch(tk, line).raised = "" /\ IsCopiedLine(line)

\* the second if with its body
EndBranch(tk, line) ==
    IF ~IsCopiedLine(line) THEN Ok(tk)
    ELSE IF ~HasFname(line) THEN Raise("IndexError")
    ELSE IF ~StrptimeOk(EndStamp(line)) THEN Raise("ValueError")
    ELSE Ok(Put(tk, Fname(line),
                [Get(tk, Fname(line)) EXCEPT !.end_time = Strptime(EndStamp(line))]))

\* one pass of the for loop
LoopBody(tk, line) ==
    IF StartBranch(tk, line).raised # "" THEN StartBranch(tk, line)
    ELSE EndBranch(StartBranch(tk, line).tk, line)

\* open(log) for a path: a new file object at position 0
Open(p) == 0

\* a parse_log that reads on from where the stream stands
SeekSkipped(p) == p

\* log.seek(0)
Seek0(p) == 0

\* -------------------------------------------------------------- the state
VARIABLES
    log,            \* the lines of the log file
    arg,            \* what the caller hands to parse_log: "path" or "stream"
    pos,            \* the read position (in lines) of the caller's stream
    pc,             \* "idle", or "scan" inside parse_log's for loop
    timekeeper,     \* the local dict of parse_log
    hits,           \* which if bodies the last pass of the loop entered
    outcomes,       \* what the finished calls of parse_log returned or raised
    config,         \* the keys the configuration holds
    rpc,            \* where run_automation stands ("none": not called)
    log_file,       \* whether the rclone log temp file is on disk
    cfg_file,       \* the rclone config temp file: "none", "open", "deleted"
    exit_status,    \* how the shell executor ended ("": not invoked)
    surfaced        \* what run_automation gave its caller

parse_vars == <<log, arg, pos, pc, timekeeper, hits, outcomes>>
run_vars == <<config, rpc, log_file, cfg_file, exit_status, surfaced>>
vars == <<parse_vars, run_vars>>

NoHits == [start |-> FALSE, end |-> FALSE]

\* lines 134-140: open/seek and the empty dict
Enter ==
    /\ pc = "idle"
    /\ pos' = Seek0(IF arg = "path" THEN Open(pos) ELSE pos)
    /\ timekeeper' = <<>>
    /\ hits' = NoHits
    /\ pc' = "scan"
    /\ UNCHANGED <<log, arg, outcomes>>

\* a caller calls parse_log(log)
Call ==
    /\ rpc = "none"
    /\ Len(outcomes) < MaxCalls
    /\ Enter
    /\ UNCHANGED run_vars

\* lines 141-163: the loop body on the next line; an exception ends the call
ScanLine ==
    /\ pc = "scan"
    /\ pos < Len(log)
    /\ LET line == log[pos + 1]
           r == LoopBody(timekeeper, line)
       IN /\ pos' = pos + 1
          /\ hits' = [start |-> IsStartLine(line), end |-> EndTaken(timekeeper, line)]
          /\ IF r.raised # ""
             THEN /\ pc' = "idle"
                  /\ timekeeper' = <<>>
                  /\ outcomes' = Append(outcomes, [raised |-> r.raised, value |-> <<>>])
             ELSE /\ pc' = "scan"
                  /\ timekeeper' = r.tk
                  /\ outcomes' = outcomes
    /\ UNCHANGED <<log, arg, run_vars>>

\* lines 165-167: return tuple(timekeeper.values())
Return ==
    /\ pc = "scan"
    /\ pos = Len(log)
    /\ pc' = "idle"
    /\ outcomes' = Append(outcomes, [raised |-> "", value |-> timekeeper])
    /\ UNCHANGED <<log, arg, pos, timekeeper, hits, run_vars>>

AllKeys ==
    {"source_s3_bucket", "source_s3_region", "dest_s3_bucket", "dest_s3_region",
     "source_token", "source_secret", "source_s3_endpoint",
     "dest_token", "dest_secret", "dest_s3_endpoint"}

NoRun ==
    /\ config = AllKeys
    /\ rpc = "none"
    /\ log_file = FALSE
    /\ cfg_file = "none"
    /\ exit_status = ""
    /\ surfaced = ""

Init ==
    /\ log \in Logs
    /\ arg \in {"path", "stream"}
    /\ pos = 0
    /\ pc = "idle"
    /\ timekeeper = <<>>
    /\ hits = NoHits
    /\ outcomes = <<>>
    /\ NoRun

Next == Call \/ ScanLine \/ Return

Spec == Init /\ [][Next]_vars

\* ----------------------------------------------------------- run_automation
\* the keys run_automation reads itself, and those _generate_rclone_cfg reads
BucketKeys == {"source_s3_bucket", "source_s3_region", "dest_s3_bucket", "dest_s3_region"}
CredentialKeys == AllKeys \ BucketKeys

\* a complete configuration, or one with a key missing
Configs == {AllKeys} \cup {AllKeys \ {k} : k \in AllKeys}

\* how the shell executor ends: it returns on exit status 0 and raises
\* ProcessFailure on any other exit status
ExecutorOutcomes == {"exit 0", "ProcessFailure"}

\* what rclone may have written to the log file when it ends
RunLogs == SeqsUpTo(Lines, MaxRunLines)

Finished == rpc \in {"done", "failed"}

\* run_automation ends in an exception
Fail(exc) == rpc' = "failed" /\ surfaced' = exc

\* lines 79-85: self.config[...] for the bucket and region keys
ReadConfig ==
    /\ rpc = "start"
    /\ IF BucketKeys \subseteq config
       THEN rpc' = "mklog" /\ surfaced' = surfaced
       ELSE Fail("KeyError")
    /\ UNCHANGED <<parse_vars, config, log_file, cfg_file, exit_status>>

\* lines 88-91: NamedTemporaryFile(mode="w+", ..., delete=False)
CreateLogFile ==
    /\ rpc = "mklog"
    /\ log_file' = TRUE
    /\ log' = <<>>
    /\ pos' = 0
    /\ rpc' = "mkcfg"
    /\ UNCHANGED <<arg, pc, timekeeper, hits, outcomes, config, cfg_file, exit_status, surfaced>>

\* lines 93-95 and 42-76: _generate_rclone_cfg reads the credential keys,
\* then creates the config temp file (deleted when closed)
GenerateCfg ==
    /\ rpc = "mkcfg"
    /\ IF CredentialKeys \subseteq config
       THEN cfg_file' = "open" /\ rpc' = "exec" /\ surfaced' = surfaced
       ELSE cfg_file' = cfg_file /\ Fail("KeyError")
    /\ UNCHANGED <<parse_vars, config, log_file, exit_status>>

\* what run_automation does with an executor that raised: nothing, the
\* exception goes to the caller as it is
Propagate(exc) == exc

\* lines 97-117: exdto = self.shell_executor(cmd); rclone writes the log
Execute ==
    /\ rpc = "exec"
    /\ \E o \in ExecutorOutcomes, written \in RunLogs :
          /\ exit_status' = o
          /\ log' = written
          /\ IF o = "exit 0"
             THEN rpc' = "close" /\ surfaced' = surfaced
             ELSE Fail(Propagate(o))
    /\ UNCHANGED <<arg, pos, pc, timekeeper, hits, outcomes, config, log_file, cfg_file>>

\* lines 119-121: rclone_config_file.close(), which deletes the file
CloseCfg ==
    /\ rpc = "close"
    /\ cfg_file' = "deleted"
    /\ rpc' = "parse"
    /\ UNCHANGED <<parse_vars, config, log_file, exit_status, surfaced>>

\* line 124: self.parse_log(rclone_log_file, debug=self.debug)
RunParse ==
    /\ rpc = "parse"
    /\ Enter
    /\ rpc' = "parsing"
    /\ UNCHANGED <<config, log_file, cfg_file, exit_status, surfaced>>

\* lines 124-128: parse_log has ended; return vals, or its exception
RunReturn ==
    /\ rpc = "parsing"
    /\ pc = "idle"
    /\ IF outcomes[Len(outcomes)].raised = ""
       THEN rpc' = "done" /\ surfaced' = "records"
       ELSE Fail(outcomes[Len(outcomes)].raised)
    /\ UNCHANGED <<parse_vars, config, log_file, cfg_file, exit_status>>

\* line 73: the config file object was made with delete=True, so a file
\* that run_automation left open goes when the interpreter frees the
\* object, after the caller has let go of the exception
Finalize ==
    /\ rpc = "failed"
    /\ cfg_file = "open"
    /\ cfg_file' = "deleted"
    /\ UNCHANGED <<parse_vars, config, rpc, log_file, exit_status, surfaced>>

InitRun ==
    /\ log = <<>>
    /\ arg = "stream"
    /\ pos = 0
    /\ pc = "idle"
    /\ timekeeper = <<>>
    /\ hits = NoHits
    /\ outcomes = <<>>
    /\ config \in Configs
    /\ rpc = "start"
    /\ log_file = FALSE
    /\ cfg_file = "none"
    /\ exit_status = ""
    /\ surfaced = ""

NextRun ==
    \/ ReadConfig \/ CreateLogFile \/ GenerateCfg \/ Execute \/ CloseCfg
    \/ RunParse \/ ScanLine \/ Return \/ RunReturn \/ Finalize

SpecRun == InitRun /\ [][NextRun]_vars

\* --------------------------------------------- generated round-trip logs
RECURSIVE Concat(_)
Concat(ss) == IF ss = <<>> THEN <<>> ELSE Head(ss) \o Concat(Tail(ss))

\* sequences of pairwise different file names, 1 .. MaxIds of them
IdSeqs ==
    {ids \in SeqsUpTo(Names, MaxIds) :
        ids # <<>> /\ \A i, j \in DOMAIN ids : i # j => ids[i] # ids[j]}

StartOf(id, m) == RcloneLine(Timestamp(0), id, m)
CopiedOf(id) == RcloneLine(Timestamp(1), id, <<COPIED>>)

\* one start line and one completion line per name, in time order: every
\* start before every completion ("batched"), or file after file
RoundTripLog(ids, m, layout) ==
    IF layout = "batched"
    THEN [i \in 1 .. Len(ids) |-> StartOf(ids[i], m)]
            \o [i \in 1 .. Len(ids) |-> CopiedOf(ids[i])]
    ELSE Concat([i \in 1 .. Len(ids) |-> <<StartOf(ids[i], m), CopiedOf(ids[i])>>])

Layouts == {"batched", "one by one"}

InitRoundTrip ==
    /\ \E ids \in IdSeqs, m \in StartMsgs, layout \in Layouts :
            log = RoundTripLog(ids, m, layout)
    /\ arg \in {"path", "stream"}
    /\ pos = 0
    /\ pc = "idle"
    /\ timekeeper = <<>>
    /\ hits = NoHits
    /\ outcomes = <<>>
    /\ NoRun

SpecRoundTrip == InitRoundTrip /\ [][Next]_vars

\* ------------------------------------------------- what the claims speak of
\* the value of the time stamp a well-formed line starts with, None otherwise
StampValue(line) ==
    IF \E k \in Ticks : Len(line) >= 7 /\ SubSeq(line, 1, 7) = Timestamp(k)
    THEN 36000 + 300 * (CHOOSE k \in Ticks : SubSeq(line, 1, 7) = Timestamp(k))
    ELSE None

Records(o) == {o.value[i] : i \in DOMAIN o.value}
Returned(i) == i \in DOMAIN outcomes /\ outcomes[i].raised = ""

\* the lines rclone writes for file name n
IsStartFor(line, n) ==
    \E k \in Ticks, m \in StartMsgs : line = RcloneLine(Timestamp(k), n, m)
IsCopiedFor(line, n) == \E k \in Ticks : line = RcloneLine(Timestamp(k), n, <<COPIED>>)

\* C1: a log with one start line and one completion line for a file name,
\* in either order, parses to exactly one record for that name, with the
\* start line's time as start_time and the completion line's as end_time.
C1_OrderIndependent ==
    \A n \in Names : \A i, j \in DOMAIN log :
        (/\ 1 \in DOMAIN outcomes
         /\ Len(log) = 2 /\ i # j
         /\ IsStartFor(log[i], n) /\ IsCopiedFor(log[j], n))
        => /\ Returned(1)
           /\ Cardinality({d \in Records(outcomes[1]) : d.fname = n}) = 1
           /\ \A d \in Records(outcomes[1]) :
                 d.fname = n => /\ d.start_time = StampValue(log[i])
                                /\ d.end_time = StampValue(log[j])

ExampleLog == <<ExampleStart, ExampleEnd>>

\* C2 as stated: the two example lines parse to one record named foo,
\* started 10:00:00 and ended 10:05:00.
C2_ExampleFoo ==
    (log = ExampleLog /\ 1 \in DOMAIN outcomes)
    => /\ Returned(1)
       /\ outcomes[1].value =
            <<[fname |-> <<"foo">>, transferer |-> "rclone",
               start_time |-> 36000, end_time |-> 36300]>>

\* C2 amended: the two example lines parse to one record, started 10:00:00
\* and ended 10:05:00, whose name is msg: the fourth colon-delimited field
\* of the line, the two colons of the time stamp counted.
C2_ExampleMsg ==
    (log = ExampleLog /\ 1 \in DOMAIN outcomes)
    => /\ Returned(1)
       /\ outcomes[1].value =
            <<[fname |-> <<"msg">>, transferer |-> "rclone",
               start_time |-> 36000, end_time |-> 36300]>>

C2_Witness == log = ExampleLog /\ Returned(1)

\* a marker line that parses: a name field and a time stamp for its marker
GoodMarker(line) ==
    /\ IsStartLine(line) \/ IsCopiedLine(line)
    /\ HasFname(line)
    /\ IsStartLine(line) => StrptimeOk(StartStamp(line))
    /\ IsCopiedLine(line) => StrptimeOk(EndStamp(line))

\* C3: a marker line that cannot be parsed is skipped: the call never ends
\* in an exception, and every well-formed marker line of the log has its
\* record in the result.
C3_BadLineSkipped ==
    \A c \in DOMAIN outcomes :
        /\ outcomes[c].raised = ""
        /\ \A i \in DOMAIN log :
              GoodMarker(log[i]) =>
                  \E d \in Records(outcomes[c]) : d.fname = Fname(log[i])

\* the time of the last line of l that satisfies P and names f, None if none
LastStamp(l, f, P(_)) ==
    LET hit == {i \in DOMAIN l : P(l[i]) /\ HasFname(l[i]) /\ Fname(l[i]) = f}
    IN IF hit = {} THEN None
       ELSE StampValue(l[CHOOSE i \in hit : \A j \in hit : j <= i])

BothSet(d) == d.start_time # None /\ d.end_time # None

C5_FailsBeforeAnyArtifact ==
    config # AllKeys =>
        /\ exit_status = ""
        /\ Finished => (rpc = "failed" /\ ~log_file /\ cfg_file = "none")

\* C6: when the executor reports a failed process, run_automation gives
\* its caller a TransferExecutionError and parse_log is not called.
C6_ExecutionErrorSurfaced ==
    (exit_status = "ProcessFailure" /\ Finished)
    => /\ surfaced = "TransferExecutionError"
       /\ outcomes = <<>>

\* C7 as stated: a returned record with both times set has
\* end_time >= start_time, whatever the log; and every name a marker line
\* gave a time to has its record in the result.
C7_EndNotBeforeStart ==
    \A c \in DOMAIN outcomes :
        Returned(c) =>
            /\ \A d \in Records(outcomes[c]) : BothSet(d) => d.end_time >= d.start_time
            /\ \A i \in DOMAIN log :
                  GoodMarker(log[i]) =>
                      \E d \in Records(outcomes[c]) : d.fname = Fname(log[i])

\* C7 amended: a returned record carries the times of the last start line
\* and of the last completion line of its name as they stand in the log, so
\* end_time >= start_time holds when the completion line is not stamped
\* earlier than the start line, and not otherwise; a record with one time
\* set is returned all the same.
C7_TimesAsLogged ==
    \A c \in DOMAIN outcomes :
        Returned(c) =>
            /\ \A d \in Records(outcomes[c]) :
                  /\ d.start_time = LastStamp(log, d.fname, IsStartLine)
                  /\ d.end_time = LastStamp(log, d.fname, IsCopiedLine)
                  /\ BothSet(d) =>
                        (d.end_time >= d.start_time
                            <=> LastStamp(log, d.fname, IsCopiedLine)
                                    >= LastStamp(log, d.fname, IsStartLine))
            /\ \A i \in DOMAIN log :
                  GoodMarker(log[i]) =>
                      \E d \in Records(outcomes[c]) : d.fname = Fname(log[i])

\* a completion line stamped earlier than the start line, both parsed
C7_Witness ==
    /\ Returned(1)
    /\ \E d \in Records(outcomes[1]) : BothSet(d) /\ d.end_time < d.start_time

\* C8: a log of N different file names, each with one start line and one
\* completion line in time order, parses to exactly N records, one per
\* name, each with both times set and end_time >= start_time.
C8_RoundTrip ==
    \A ids \in IdSeqs, m \in StartMsgs, layout \in Layouts :
        (log = RoundTripLog(ids, m, layout) /\ 1 \in DOMAIN outcomes)
        => /\ Returned(1)
           /\ Len(outcomes[1].value) = Len(ids)
           /\ \A i \in DOMAIN ids :
                 \E d \in Records(outcomes[1]) :
                     d.fname = ids[i] /\ BothSet(d) /\ d.end_time >= d.start_time

\* C9: two calls of parse_log on the same log, path or stream, end the
\* same way: the same set of records returned, or the same exception.
C9_Idempotent ==
    \A a, b \in DOMAIN outcomes :
        /\ outcomes[a].raised = outcomes[b].raised
        /\ Records(outcomes[a]) = Records(outcomes[b])

\* a second call on the stream the first call left at end of file, with
\* records to return
C9_Witness ==
    /\ arg = "stream"
    /\ Len(outcomes) >= 2
    /\ Returned(1) /\ Returned(2)
    /\ Records(outcomes[2]) # {}

\* C10: no line makes the loop body enter both the start branch and the
\* completion branch.
C10_OneBranchPerLine == ~(hits.start /\ hits.end)

====
